---- MODULE Spec2Model ----
(***************************************************************************)
(* A model of the bloomy crate: the packed bit vector (src/src/bitvec.rs)  *)
(* and the Bloom filter built on it (src/src/bloom.rs).                    *)
(*                                                                         *)
(* A client owns named BloomFilter values, or named BitVec values, and     *)
(* calls the public operations on them.  Every operation records what it   *)
(* returned (or that it panicked) in `out`.                                *)
(*                                                                         *)
(* Numbers.  u64 digests are kept at their full width as four 16-bit limbs *)
(* (least significant first), so that wrapping_add / wrapping_mul wrap at  *)
(* 2^64.  f64 values of the sizing formulas are carried in millionths      *)
(* (natural logarithms rounded to six decimals); within the bounds of this *)
(* model the ceilings and roundings agree with IEEE double arithmetic.     *)
(***************************************************************************)
EXTENDS Integers, Sequences, FiniteSets, TLC

VARIABLES filters, made, ins, vecs, sip, out

vars == <<filters, made, ins, vecs, sip, out>>

(***************************************************************************)
(* Bounds of the model.                                                    *)
(***************************************************************************)
\* capacities passed to new / with_rate range over 0..MaxCapacity
MaxCapacity == 5
\* byte sizes passed to with_size, and raw buffer lengths, range over 0..MaxBytes
MaxBytes == 2
\* the items inserted and queried are 1..NumItems
NumItems == 2

Items == 1..NumItems
Capacities == 0..MaxCapacity
ByteSizes == 0..MaxBytes
\* lengths passed to BitVec::new: empty, a partial byte, one byte, a partial tail
VecLens == {0, 5, 8, 12}
\* the bytes raw buffers are made of
ByteSamples == {0, 255}
\* the name of the filter, or of the stand-alone bit vector, the client holds;
\* the other operand of a binary operation is built on the spot
Names == {"a"}

(***************************************************************************)
(* Results of operations: a value, or a panic with its message.            *)
(***************************************************************************)
Ok(x) == [panic |-> "", val |-> x]
Panic(msg, x) == [panic |-> msg, val |-> x]

OutOfBounds == "index out of bounds"
DivByZero == "attempt to divide by zero"
RemByZero == "attempt to calculate the remainder with a divisor of zero"
BitVecUnionLen == "unable to union bitvecs with different lengths"
BitVecIntersectLen == "unable to intersect bitvecs with different lengths"
CompareConfig == "unable to compare filters with different configurations"
UnionConfig == "unable to union filters with different configurations"
IntersectConfig == "unable to intersect filters with different configurations"

(***************************************************************************)
(* u8 arithmetic.                                                          *)
(***************************************************************************)
Pow2(j) == 2 ^ j
Bit(b, j) == (b \div Pow2(j)) % 2
ByteOf(bit(_)) ==
    bit(0) + 2 * bit(1) + 4 * bit(2) + 8 * bit(3)
  + 16 * bit(4) + 32 * bit(5) + 64 * bit(6) + 128 * bit(7)
ByteOr(a, b) ==
    LET bit(j) == IF Bit(a, j) = 1 \/ Bit(b, j) = 1 THEN 1 ELSE 0 IN ByteOf(bit)
ByteAnd(a, b) ==
    LET bit(j) == IF Bit(a, j) = 1 /\ Bit(b, j) = 1 THEN 1 ELSE 0 IN ByteOf(bit)
\* u8::count_ones
ByteCountOnes(b) ==
    Bit(b, 0) + Bit(b, 1) + Bit(b, 2) + Bit(b, 3)
  + Bit(b, 4) + Bit(b, 5) + Bit(b, 6) + Bit(b, 7)
Min(a, b) == IF a <= b THEN a ELSE b
Max(a, b) == IF a >= b THEN a ELSE b

(***************************************************************************)
(* BitVec (src/src/bitvec.rs).  A value is [bytes, nbits].                 *)
(***************************************************************************)
\* faulty variant: a byte too many when the capacity is a multiple of 8
BitVec_new_extra_byte(capacity) ==
    LET byte_length == 1 + capacity \div 8
    IN [nbits |-> capacity, bytes |-> [i \in 1..byte_length |-> 0]]

BitVec_new(capacity) ==
    LET byte_length == IF capacity % 8 = 0 THEN capacity \div 8
                       ELSE 1 + capacity \div 8
    IN [nbits |-> capacity, bytes |-> [i \in 1..byte_length |-> 0]]

BitVec_len(v) == v.nbits

BitVec_is_empty(v) == v.nbits = 0

\* faulty variant: only the first byte is zeroed
BitVec_clear_first_byte(v) ==
    [v EXCEPT !.bytes = [i \in DOMAIN v.bytes |-> IF i = 1 THEN 0 ELSE v.bytes[i]]]

BitVec_clear(v) == [v EXCEPT !.bytes = [i \in DOMAIN v.bytes |-> 0]]

\* faulty variant: the index is tested against the byte buffer, not the length
BitVec_in_bounds_bytes(v, index) == ~(index >= Len(v.bytes) * 8)

\* the bounds test of set and is_set
BitVec_in_bounds(v, index) == ~(index >= BitVec_len(v))

\* faulty variant: ^= in place of |=
BitVec_xor_mask(byte, mask) ==
    LET bit(j) == IF Bit(byte, j) # Bit(mask, j) THEN 1 ELSE 0 IN ByteOf(bit)

\* self.bytes[byte_index] |= mask
BitVec_or_mask(byte, mask) == ByteOr(byte, mask)

\* faulty variant: = in place of |=, the byte becomes the mask
BitVec_set_assign(v, index) ==
    IF ~BitVec_in_bounds(v, index) THEN Panic(OutOfBounds, v)
    ELSE LET byte_index == index \div 8
             mask == Pow2(index % 8)
         IN Ok([v EXCEPT !.bytes[byte_index + 1] = mask])

\* faulty variant: the mask counts from the most significant bit
BitVec_set_msb_first(v, index) ==
    IF ~BitVec_in_bounds(v, index) THEN Panic(OutOfBounds, v)
    ELSE LET byte_index == index \div 8
             mask == Pow2(7 - (index % 8))
         IN Ok([v EXCEPT !.bytes[byte_index + 1] =
                            BitVec_or_mask(v.bytes[byte_index + 1], mask)])

BitVec_set(v, index) ==
    IF ~BitVec_in_bounds(v, index) THEN Panic(OutOfBounds, v)
    ELSE LET byte_index == index \div 8
             mask == Pow2(index % 8)
         IN Ok([v EXCEPT !.bytes[byte_index + 1] =
                            BitVec_or_mask(v.bytes[byte_index + 1], mask)])

BitVec_is_set(v, index) ==
    IF ~BitVec_in_bounds(v, index) THEN Panic(OutOfBounds, FALSE)
    ELSE LET byte_index == index \div 8
             mask == Pow2(index % 8)
         IN Ok(ByteAnd(v.bytes[byte_index + 1], mask) = mask)

RECURSIVE SumOnes(_, _)
SumOnes(bytes, n) ==
    IF n = 0 THEN 0 ELSE SumOnes(bytes, n - 1) + ByteCountOnes(bytes[n])

BitVec_count_ones(v) == SumOnes(v.bytes, Len(v.bytes))

BitVec_count_zeros(v) == BitVec_len(v) - BitVec_count_ones(v)

\* iter().zip(): as many pairs as the shorter buffer holds
Zip(f(_, _), xs, ys) == [i \in 1..Min(Len(xs), Len(ys)) |-> f(xs[i], ys[i])]

\* the length test of union and intersection
BitVec_same_len(v, w) == ~(v.nbits # w.nbits)

\* faulty variant: a & b in place of a | b
BitVec_union_and(v, w) ==
    IF ~BitVec_same_len(v, w) THEN Panic(BitVecUnionLen, v)
    ELSE Ok([bytes |-> Zip(ByteAnd, v.bytes, w.bytes), nbits |-> v.nbits])

BitVec_union(v, w) ==
    IF ~BitVec_same_len(v, w) THEN Panic(BitVecUnionLen, v)
    ELSE Ok([bytes |-> Zip(ByteOr, v.bytes, w.bytes), nbits |-> v.nbits])

\* faulty variant: a | b in place of a & b
BitVec_intersection_or(v, w) ==
    IF ~BitVec_same_len(v, w) THEN Panic(BitVecIntersectLen, v)
    ELSE Ok([bytes |-> Zip(ByteOr, v.bytes, w.bytes), nbits |-> v.nbits])

BitVec_intersection(v, w) ==
    IF ~BitVec_same_len(v, w) THEN Panic(BitVecIntersectLen, v)
    ELSE Ok([bytes |-> Zip(ByteAnd, v.bytes, w.bytes), nbits |-> v.nbits])

BitVec_as_bytes(v) == v.bytes

\* impl From<Vec<u8>> for BitVec
BitVec_from(bytes) == [bytes |-> bytes, nbits |-> Len(bytes) * 8]

\* impl From<BitVec> for Vec<u8>
BitVec_into(v) == v.bytes

\* #[derive(PartialEq)] on BitVec
BitVec_eq(v, w) == v.bytes = w.bytes /\ v.nbits = w.nbits

(***************************************************************************)
(* u64 arithmetic at full width: <<l0, l1, l2, l3>>, 16-bit limbs, value   *)
(* l0 + 2^16 l1 + 2^32 l2 + 2^48 l3.                                       *)
(***************************************************************************)
Limb == 65536
U64(l3, l2, l1, l0) == <<l0, l1, l2, l3>>
\* a small natural number (below 2^31) as a u64
U64Of(n) == <<n % Limb, n \div Limb, 0, 0>>

\* u64::wrapping_add: the carry out of the top limb is dropped
U64_wrapping_add(x, y) ==
    LET s0 == x[1] + y[1]
        s1 == x[2] + y[2] + s0 \div Limb
        s2 == x[3] + y[3] + s1 \div Limb
        s3 == x[4] + y[4] + s2 \div Limb
    IN <<s0 % Limb, s1 % Limb, s2 % Limb, s3 % Limb>>

\* u64::wrapping_mul of a small i (i < 2^15) with y
U64_wrapping_mul(i, y) ==
    LET p0 == i * y[1]
        p1 == i * y[2] + p0 \div Limb
        p2 == i * y[3] + p1 \div Limb
        p3 == i * y[4] + p2 \div Limb
    IN <<p0 % Limb, p1 % Limb, p2 % Limb, p3 % Limb>>

\* x % m for 0 < m < 2^15
U64_rem(x, m) ==
    LET r3 == x[4] % m
        r2 == (r3 * Limb + x[3]) % m
        r1 == (r2 * Limb + x[2]) % m
    IN (r1 * Limb + x[1]) % m

(***************************************************************************)
(* f64 arithmetic of the sizing formulas, in millionths.                   *)
(***************************************************************************)
CeilDiv(a, b) == (a + b - 1) \div b
\* f64::round of a / b for a >= 0, b > 0: half away from zero
RoundDiv(a, b) == (2 * a + b) \div (2 * b)

\* f64::consts::LN_2, and LN_SQR = LN_2 * LN_2
LN_2 == 693147
LN_SQR == 480453

\* false positive rates are given in percent; DEFAULT_FALSE_POSITIVE_RATE = 0.01
DEFAULT_FALSE_POSITIVE_RATE == 1
\* the rates passed to with_rate: 0.01 and 0.9
Rates == {1, 90}

\* -fp_rate.ln()
NegLn(fp_rate) ==
    CASE fp_rate = 1 -> 4605170
      [] fp_rate = 90 -> 105361

\* f64::ln of the integers 1..64
LnTable ==
    << 0, 693147, 1098612, 1386294, 1609438, 1791759, 1945910, 2079442,
       2197225, 2302585, 2397895, 2484907, 2564949, 2639057, 2708050, 2772589,
       2833213, 2890372, 2944439, 2995732, 3044522, 3091042, 3135494, 3178054,
       3218876, 3258097, 3295837, 3332205, 3367296, 3401197, 3433987, 3465736,
       3496508, 3526361, 3555348, 3583519, 3610918, 3637586, 3663562, 3688879,
       3713572, 3737670, 3761200, 3784190, 3806662, 3828641, 3850148, 3871201,
       3891820, 3912023, 3931826, 3951244, 3970292, 3988984, 4007333, 4025352,
       4043051, 4060443, 4077537, 4094345, 4110874, 4127134, 4143135, 4158883 >>

optimal_bits(capacity, fp_rate) == CeilDiv(NegLn(fp_rate) * capacity, LN_SQR)

optimal_capacity(nbits, fp_rate) ==
    IF NegLn(fp_rate) = 0 THEN 0    \* NaN or -inf `as usize`
    ELSE RoundDiv(nbits * LN_SQR, NegLn(fp_rate))

\* nbits / capacity is the integer division of two usize
optimal_hashes_ratio(nbits, capacity) == nbits \div capacity

optimal_hashes(nbits, capacity) ==
    IF capacity = 0 THEN Panic(DivByZero, 0)
    ELSE Ok(CeilDiv(optimal_hashes_ratio(nbits, capacity) * LN_2, 1000000))

(***************************************************************************)
(* BloomFilter (src/src/bloom.rs).  A value is [bits, nhashes, hashers].   *)
(***************************************************************************)
HASHER_SEEDS ==
    << <<136, 168, 28, 251, 141, 239, 69, 38, 166, 209, 98, 201, 2, 169, 146, 170>>,
       <<103, 236, 177, 212, 54, 11, 66, 5, 194, 86, 6, 254, 82, 93, 203, 37>> >>

\* the struct literal shared by the constructors
BloomFilter(bits, nhashes) ==
    [bits |-> bits, nhashes |-> nhashes, hashers |-> HASHER_SEEDS]

with_rate(capacity, fp_rate) ==
    LET nbits == optimal_bits(capacity, fp_rate)
        nhashes == optimal_hashes(nbits, capacity)
    IN IF nhashes.panic # "" THEN nhashes
       ELSE Ok(BloomFilter(BitVec_new(nbits), nhashes.val))

new(capacity) == with_rate(capacity, DEFAULT_FALSE_POSITIVE_RATE)

with_size(nbytes) ==
    LET nbits == nbytes * 8
        capacity == optimal_capacity(nbits, DEFAULT_FALSE_POSITIVE_RATE)
        nhashes == optimal_hashes(nbits, capacity)
    IN IF nhashes.panic # "" THEN nhashes
       ELSE Ok(BloomFilter(BitVec_new(nbits), nhashes.val))

\* faulty variant: the capacity is derived from the byte count, not the bit count
BloomFilter_from_bytes_len(other) ==
    LET bits == BitVec_from(other)
        capacity == optimal_capacity(Len(other), DEFAULT_FALSE_POSITIVE_RATE)
        nhashes == optimal_hashes(BitVec_len(bits), capacity)
    IN IF nhashes.panic # "" THEN nhashes
       ELSE Ok(BloomFilter(bits, nhashes.val))

\* impl From<Vec<u8>> for BloomFilter
BloomFilter_from(other) ==
    LET bits == BitVec_from(other)
        capacity == optimal_capacity(BitVec_len(bits), DEFAULT_FALSE_POSITIVE_RATE)
        nhashes == optimal_hashes(BitVec_len(bits), capacity)
    IN IF nhashes.panic # "" THEN nhashes
       ELSE Ok(BloomFilter(bits, nhashes.val))

\* impl From<BloomFilter> for Vec<u8>
BloomFilter_into(f) == BitVec_into(f.bits)

\* impl PartialEq for BloomFilter
BloomFilter_eq(f, g) == BitVec_eq(f.bits, g.bits) /\ f.nhashes = g.nhashes

bits(f) == BitVec_len(f.bits)

hashes(f) == f.nhashes

as_bytes(f) == BitVec_as_bytes(f.bits)

\* the two SipHash-1-3 digests of an item under the filter's hashers
sip_hashes(f, item) == sip[item]

\* faulty variant: the remainder is taken by the bits of the byte buffer
bloom_hash_buffer_bits(f, h1, h2, i) ==
    LET r == U64_wrapping_add(U64_wrapping_add(h1, U64_wrapping_mul(i, h2)),
                              U64Of(i * i * i))
    IN IF Len(as_bytes(f)) = 0 THEN Panic(RemByZero, 0)
       ELSE Ok(U64_rem(r, Len(as_bytes(f)) * 8))

\* faulty variant: plain double hashing, without the i^3 term
bloom_hash_double(f, h1, h2, i) ==
    LET r == U64_wrapping_add(h1, U64_wrapping_mul(i, h2))
    IN IF bits(f) = 0 THEN Panic(RemByZero, 0)
       ELSE Ok(U64_rem(r, bits(f)))

bloom_hash(f, h1, h2, i) ==
    LET r == U64_wrapping_add(U64_wrapping_add(h1, U64_wrapping_mul(i, h2)),
                              U64Of(i * i * i))
    IN IF bits(f) = 0 THEN Panic(RemByZero, 0)
       ELSE Ok(U64_rem(r, bits(f)))

\* the loop of insert from round i on; a panic leaves the bits set so far
RECURSIVE insert_from(_, _, _, _)
insert_from(f, h1, h2, i) ==
    IF i >= f.nhashes THEN Ok(f)
    ELSE LET index == bloom_hash(f, h1, h2, i)
         IN IF index.panic # "" THEN Panic(index.panic, f)
            ELSE LET set == BitVec_set(f.bits, index.val)
                 IN IF set.panic # "" THEN Panic(set.panic, f)
                    ELSE insert_from([f EXCEPT !.bits = set.val], h1, h2, i + 1)

insert(f, item) ==
    LET h == sip_hashes(f, item) IN insert_from(f, h[1], h[2], 0)

\* the loop of contains from round i on
RECURSIVE contains_from(_, _, _, _)
contains_from(f, h1, h2, i) ==
    IF i >= f.nhashes THEN Ok(TRUE)
    ELSE LET index == bloom_hash(f, h1, h2, i)
         IN IF index.panic # "" THEN Panic(index.panic, FALSE)
            ELSE LET is_set == BitVec_is_set(f.bits, index.val)
                 IN IF is_set.panic # "" THEN is_set
                    ELSE IF ~is_set.val THEN Ok(FALSE)
                    ELSE contains_from(f, h1, h2, i + 1)

contains(f, item) ==
    LET h == sip_hashes(f, item) IN contains_from(f, h[1], h[2], 0)

clear(f) == [f EXCEPT !.bits = BitVec_clear(f.bits)]

\* faulty variant: the hash counts are not compared
is_comparable_len_only(f, g) ==
    /\ BitVec_len(f.bits) = BitVec_len(g.bits)
    /\ f.hashers[1] = g.hashers[1]
    /\ f.hashers[2] = g.hashers[2]

is_comparable(f, g) ==
    /\ f.nhashes = g.nhashes
    /\ BitVec_len(f.bits) = BitVec_len(g.bits)
    /\ f.hashers[1] = g.hashers[1]
    /\ f.hashers[2] = g.hashers[2]

BloomFilter_union(f, g) ==
    IF ~is_comparable(f, g) THEN Panic(UnionConfig, f)
    ELSE LET b == BitVec_union(f.bits, g.bits)
         IN IF b.panic # "" THEN Panic(b.panic, f)
            ELSE Ok([bits |-> b.val, nhashes |-> f.nhashes, hashers |-> f.hashers])

BloomFilter_intersection(f, g) ==
    IF ~is_comparable(f, g) THEN Panic(IntersectConfig, f)
    ELSE LET b == BitVec_intersection(f.bits, g.bits)
         IN IF b.panic # "" THEN Panic(b.panic, f)
            ELSE Ok([bits |-> b.val, nhashes |-> f.nhashes, hashers |-> f.hashers])

(***************************************************************************)
(* count, similarity, overlap.  A usize obtained from an f64 is            *)
(* [n, max]: the number n, or usize::MAX when max (the cast saturates at   *)
(* +inf; NaN and negative values cast to 0).  An f64 quotient of two such  *)
(* values is kept as the pair, or is NaN or +inf.                          *)
(***************************************************************************)
Usize(n) == [n |-> n, max |-> FALSE]
UsizeMax == [n |-> 0, max |-> TRUE]

count(f) ==
    LET nbits == BitVec_len(f.bits)
        nbits_set == BitVec_count_ones(f.bits)
        nhashes == f.nhashes
    IN  IF nbits = 0 THEN Usize(0)               \* 0/0 is NaN
        ELSE IF nbits_set > nbits THEN Usize(0)  \* ln of a negative number is NaN
        ELSE IF nbits_set = nbits THEN UsizeMax  \* ln(0) = -inf, count = +inf
        ELSE IF nbits_set = 0 THEN Usize(0)      \* ln(1) = 0: -0.0, or inf * 0 = NaN
        ELSE IF nhashes = 0 THEN UsizeMax        \* nbits / 0 = +inf
        ELSE Usize(RoundDiv(nbits * (LnTable[nbits] - LnTable[nbits - nbits_set]),
                            nhashes * 1000000))

\* x as f64 / y as f64
F64_div(x, y) ==
    IF ~y.max /\ y.n = 0
    THEN IF ~x.max /\ x.n = 0 THEN [cls |-> "NaN"] ELSE [cls |-> "inf"]
    ELSE [cls |-> "finite", num |-> x, den |-> y]

\* the f64 is exactly 1.0
F64_is_one(q) == q.cls = "finite" /\ q.num = q.den

\* usize::min
Usize_min(x, y) ==
    IF x.max THEN y ELSE IF y.max THEN x ELSE IF x.n <= y.n THEN x ELSE y

similarity(f, g) ==
    IF ~is_comparable(f, g) THEN Panic(CompareConfig, [cls |-> "NaN"])
    ELSE LET intersection == BloomFilter_intersection(f, g)
             union == BloomFilter_union(f, g)
         IN Ok(F64_div(count(intersection.val), count(union.val)))

overlap(f, g) ==
    IF ~is_comparable(f, g) THEN Panic(CompareConfig, [cls |-> "NaN"])
    ELSE LET intersection == BloomFilter_intersection(f, g)
             smallest == Usize_min(count(f), count(g))
         IN Ok(F64_div(count(intersection.val), smallest))

(***************************************************************************)
(* The state.                                                              *)
(*   filters  the BloomFilter the client holds, by name                    *)
(*   made     per filter, the constructor call that built it (history)     *)
(*   ins      per filter, the items inserted into it since it was built or *)
(*            cleared (history; for a union, the items of both sides)      *)
(*   vecs     the stand-alone BitVec the client holds, by name             *)
(*   sip      the pair of SipHash digests of each item                     *)
(*   out      the call just made: its name, the object it was made on     *)
(*            (lhs), the other operand or, for a call that changes the     *)
(*            object, the object as it was before (rhs), the scalar        *)
(*            argument (arg), what it returned (res) and the items that    *)
(*            go with rhs or res (items); kept until the client binds the  *)
(*            returned value to its name or drops it                       *)
(* A client holds a filter or a bit vector: the other kind is absent.      *)
(***************************************************************************)
Out(op, lhs, rhs, arg, res, items) ==
    [op |-> op, lhs |-> lhs, rhs |-> rhs, arg |-> arg, res |-> res, items |-> items]

NoName == "-"
\* no call is being observed: the client is between two statements
NoCall == Out("-", NoName, NoName, 0, Ok(0), {})
Idle == out = NoCall

\* digests an item can have: small ones, ones whose sums pass 2^64, mixed ones
DigestPairs ==
    << <<U64(0, 0, 0, 3), U64(0, 0, 0, 5)>>,
       <<U64(65535, 65535, 65535, 65535), U64(65535, 65535, 65535, 65534)>>,
       <<U64(32768, 0, 0, 0), U64(32768, 0, 0, 1)>>,
       <<U64(4660, 22136, 39612, 57072), U64(4077, 52137, 34661, 17185)>> >>

\* the digest tables: item x has the pair number x + shift (cyclically)
SipTables ==
    { [x \in Items |-> DigestPairs[((x + shift) % Len(DigestPairs)) + 1]] :
        shift \in 0..(Len(DigestPairs) - 1) }

\* the raw byte buffers handed to From<Vec<u8>>: n equal bytes
RawBuffers == {[i \in 1..n |-> b] : n \in ByteSizes, b \in ByteSamples}

\* the record of a constructor call
Made(op, arg, fp_rate) == [op |-> op, arg |-> arg, fp_rate |-> fp_rate]

Nothing == [n \in {} |-> 0]

\* for item in S { f.insert(item) }, on a filter insert does not panic on
RECURSIVE insert_all(_, _)
insert_all(f, S) ==
    IF S = {} THEN f
    ELSE LET x == CHOOSE y \in S : \A z \in S : y <= z
         IN insert_all(insert(f, x).val, S \ {x})

\* the filters the constructors return
Constructed ==
    {r.val : r \in {q \in {with_rate(c, p) : c \in Capacities, p \in Rates}
                           \cup {with_size(n) : n \in ByteSizes} : q.panic = ""}}

\* the other operand of a binary operation on f, with the items inserted into
\* it: f itself, a filter built like f was (a cleared clone) holding any set
\* of items, or a filter fresh from a constructor
Others(f, S) ==
    {[f |-> f, items |-> S]}
    \cup {[f |-> insert_all(clear(f), T), items |-> T] : T \in SUBSET Items}
    \cup {[f |-> g, items |-> {}] : g \in Constructed}

InitFilters ==
    /\ filters = [n \in Names |-> new(1).val]
    /\ made = [n \in Names |-> Made("new", 1, DEFAULT_FALSE_POSITIVE_RATE)]
    /\ ins = [n \in Names |-> {}]
    /\ vecs = Nothing
    /\ sip \in SipTables

InitVecs ==
    /\ filters = Nothing
    /\ made = Nothing
    /\ ins = Nothing
    /\ vecs = [n \in Names |-> BitVec_new(0)]
    /\ sip = [x \in Items |-> DigestPairs[1]]

Init ==
    /\ out = NoCall
    /\ (InitFilters \/ InitVecs)

(***************************************************************************)
(* Operations on the filter.                                               *)
(***************************************************************************)
\* let d = <constructor>: the name is bound when the constructor returns
Bind(d, op, arg, fp_rate, res) ==
    /\ out' = Out(op, d, NoName, arg, [res EXCEPT !.val = 0], {})
    /\ IF res.panic = ""
       THEN /\ filters' = [filters EXCEPT ![d] = res.val]
            /\ made' = [made EXCEPT ![d] = Made(op, arg, fp_rate)]
            /\ ins' = [ins EXCEPT ![d] = {}]
       ELSE UNCHANGED <<filters, made, ins>>
    /\ UNCHANGED <<vecs, sip>>

NewAct(d, capacity) ==
    Bind(d, "new", capacity, DEFAULT_FALSE_POSITIVE_RATE, new(capacity))

WithRateAct(d, capacity, fp_rate) ==
    Bind(d, "with_rate", capacity, fp_rate, with_rate(capacity, fp_rate))

WithSizeAct(d, nbytes) ==
    Bind(d, "with_size", nbytes, DEFAULT_FALSE_POSITIVE_RATE, with_size(nbytes))

\* BloomFilter::from(bytes) of a raw buffer
FromAct(d, bytes) ==
    Bind(d, "from", Len(bytes), DEFAULT_FALSE_POSITIVE_RATE, BloomFilter_from(bytes))

\* an operation that only returns a value
Return(op, lhs, rhs, arg, res, items) ==
    /\ out' = Out(op, lhs, rhs, arg, res, items)
    /\ UNCHANGED <<filters, made, ins, vecs, sip>>

\* let bytes: Vec<u8> = s.clone().into(); BloomFilter::from(bytes)
RoundTripAct(s) ==
    Return("round_trip", s, NoName, 0,
           BloomFilter_from(BloomFilter_into(filters[s])), ins[s])

InsertAct(s, item) ==
    LET res == insert(filters[s], item)
    IN /\ out' = Out("insert", s, filters[s], item, [res EXCEPT !.val = 0], ins[s])
       /\ filters' = [filters EXCEPT ![s] = res.val]
       /\ ins' = [ins EXCEPT ![s] = IF res.panic = "" THEN @ \cup {item} ELSE @]
       /\ UNCHANGED <<made, vecs, sip>>

ContainsAct(s, item) ==
    Return("contains", s, NoName, item, contains(filters[s], item), {})

ClearAct(s) ==
    /\ out' = Out("clear", s, filters[s], 0, Ok(0), ins[s])
    /\ filters' = [filters EXCEPT ![s] = clear(@)]
    /\ ins' = [ins EXCEPT ![s] = {}]
    /\ UNCHANGED <<made, vecs, sip>>

CountAct(s) == Return("count", s, NoName, 0, Ok(count(filters[s])), {})

UnionAct(s, other) ==
    Return("union", s, other.f, 0, BloomFilter_union(filters[s], other.f),
           ins[s] \cup other.items)

IntersectionAct(s, other) ==
    Return("intersection", s, other.f, 0, BloomFilter_intersection(filters[s], other.f),
           ins[s] \cap other.items)

SimilarityAct(s, other) ==
    Return("similarity", s, other.f, 0, similarity(filters[s], other.f), {})

OverlapAct(s, other) ==
    Return("overlap", s, other.f, 0, overlap(filters[s], other.f), {})

\* d = <the filter the last union or intersection returned>
StoreAct(d) ==
    /\ out.op \in {"union", "intersection"}
    /\ out.res.panic = ""
    /\ filters' = [filters EXCEPT ![d] = out.res.val]
    /\ ins' = [ins EXCEPT ![d] = out.items]
    /\ out' = NoCall
    /\ UNCHANGED <<made, vecs, sip>>

(***************************************************************************)
(* Operations on the stand-alone bit vector.                               *)
(***************************************************************************)
\* the indices tried on a vector: the first bit, the last bit of the first
\* byte, the last bit, and the first two indices past the end
IndexSamples(v) == {i \in {0, 7, v.nbits - 1, v.nbits, v.nbits + 1} : i >= 0}

\* for i in I { v.set(i) }, for indices in range
RECURSIVE set_all(_, _)
set_all(v, I) ==
    IF I = {} THEN v
    ELSE LET i == CHOOSE j \in I : \A k \in I : j <= k
         IN set_all(BitVec_set(v, i).val, I \ {i})

\* the other operand of a binary operation: a new vector with sample bits set
OtherVecs ==
    UNION {{set_all(BitVec_new(n), I) :
              I \in SUBSET {i \in IndexSamples(BitVec_new(n)) : i < n}} : n \in VecLens}

BitVecNewAct(d, capacity) ==
    /\ vecs' = [vecs EXCEPT ![d] = BitVec_new(capacity)]
    /\ out' = Out("BitVec::new", d, NoName, capacity, Ok(0), {})
    /\ UNCHANGED <<filters, made, ins, sip>>

BitVecFromAct(d, bytes) ==
    /\ vecs' = [vecs EXCEPT ![d] = BitVec_from(bytes)]
    /\ out' = Out("BitVec::from", d, NoName, Len(bytes), Ok(0), {})
    /\ UNCHANGED <<filters, made, ins, sip>>

SetAct(v, index) ==
    LET res == BitVec_set(vecs[v], index)
    IN /\ vecs' = [vecs EXCEPT ![v] = res.val]
       /\ out' = Out("set", v, vecs[v], index, [res EXCEPT !.val = 0], {})
       /\ UNCHANGED <<filters, made, ins, sip>>

IsSetAct(v, index) ==
    Return("is_set", v, NoName, index, BitVec_is_set(vecs[v], index), {})

BitVecClearAct(v) ==
    /\ vecs' = [vecs EXCEPT ![v] = BitVec_clear(@)]
    /\ out' = Out("BitVec::clear", v, vecs[v], 0, Ok(0), {})
    /\ UNCHANGED <<filters, made, ins, sip>>

CountOnesAct(v) ==
    Return("count_ones", v, NoName, 0, Ok(BitVec_count_ones(vecs[v])), {})

CountZerosAct(v) ==
    Return("count_zeros", v, NoName, 0, Ok(BitVec_count_zeros(vecs[v])), {})

BitVecUnionAct(v, w) ==
    Return("BitVec::union", v, w, 0, BitVec_union(vecs[v], w), {})

BitVecIntersectionAct(v, w) ==
    Return("BitVec::intersection", v, w, 0, BitVec_intersection(vecs[v], w), {})

\* d = <the vector the last union or intersection returned>
BitVecStoreAct(d) ==
    /\ out.op \in {"BitVec::union", "BitVec::intersection"}
    /\ out.res.panic = ""
    /\ vecs' = [vecs EXCEPT ![d] = out.res.val]
    /\ out' = NoCall
    /\ UNCHANGED <<filters, made, ins, sip>>

\* the value the last call returned goes out of scope
DropAct ==
    /\ ~Idle
    /\ out' = NoCall
    /\ UNCHANGED <<filters, made, ins, vecs, sip>>

\* the client makes a call when it holds no unbound result
Next ==
    \/ Idle /\ \E d \in DOMAIN filters, c \in Capacities : NewAct(d, c)
    \/ Idle /\ \E d \in DOMAIN filters, c \in Capacities, r \in Rates : WithRateAct(d, c, r)
    \/ Idle /\ \E d \in DOMAIN filters, n \in ByteSizes : WithSizeAct(d, n)
    \/ Idle /\ \E d \in DOMAIN filters, bytes \in RawBuffers : FromAct(d, bytes)
    \/ Idle /\ \E s \in DOMAIN filters : RoundTripAct(s)
    \/ Idle /\ \E s \in DOMAIN filters, x \in Items : InsertAct(s, x)
    \/ Idle /\ \E s \in DOMAIN filters, x \in Items : ContainsAct(s, x)
    \/ Idle /\ \E s \in DOMAIN filters : ClearAct(s)
    \/ Idle /\ \E s \in DOMAIN filters : CountAct(s)
    \/ Idle /\ \E s \in DOMAIN filters : \E g \in Others(filters[s], ins[s]) : UnionAct(s, g)
    \/ Idle /\ \E s \in DOMAIN filters : \E g \in Others(filters[s], ins[s]) : IntersectionAct(s, g)
    \/ Idle /\ \E s \in DOMAIN filters : \E g \in Others(filters[s], ins[s]) : SimilarityAct(s, g)
    \/ Idle /\ \E s \in DOMAIN filters : \E g \in Others(filters[s], ins[s]) : OverlapAct(s, g)
    \/ \E d \in DOMAIN filters : StoreAct(d)
    \/ Idle /\ \E d \in DOMAIN vecs, c \in VecLens : BitVecNewAct(d, c)
    \/ Idle /\ \E d \in DOMAIN vecs, bytes \in RawBuffers : BitVecFromAct(d, bytes)
    \/ Idle /\ \E v \in DOMAIN vecs : \E i \in IndexSamples(vecs[v]) : SetAct(v, i)
    \/ Idle /\ \E v \in DOMAIN vecs : \E i \in IndexSamples(vecs[v]) : IsSetAct(v, i)
    \/ Idle /\ \E v \in DOMAIN vecs : BitVecClearAct(v)
    \/ Idle /\ \E v \in DOMAIN vecs : CountOnesAct(v)
    \/ Idle /\ \E v \in DOMAIN vecs : CountZerosAct(v)
    \/ Idle /\ \E v \in DOMAIN vecs, w \in OtherVecs : BitVecUnionAct(v, w)
    \/ Idle /\ \E v \in DOMAIN vecs, w \in OtherVecs : BitVecIntersectionAct(v, w)
    \/ \E d \in DOMAIN vecs : BitVecStoreAct(d)
    \/ DropAct

Spec == Init /\ [][Next]_vars

(***************************************************************************)
(* Properties.                                                             *)
(***************************************************************************)
Called(ops) == out.op \in ops
Returned == out.res.panic = ""
BinaryOps == {"union", "intersection", "similarity", "overlap"}
\* the two filters differ in hash count or in bit length
Mismatch(f, g) == hashes(f) # hashes(g) \/ bits(f) # bits(g)

\* C1. No false negatives: contains(x) is true for every item x inserted into
\* a filter since it was built or cleared, right after the insert and after
\* any later inserts of other items.
NoFalseNegatives ==
    \A s \in DOMAIN filters : \A x \in ins[s] : contains(filters[s], x) = Ok(TRUE)

\* an item has just been inserted, changing bits, into a filter that held
\* other items, and all of them are still contained
NoFalseNegativesWitness ==
    /\ Called({"insert"}) /\ Returned
    /\ out.items # {} /\ out.arg \notin out.items
    /\ hashes(filters[out.lhs]) >= 1
    /\ filters[out.lhs] # out.rhs
    /\ \A x \in ins[out.lhs] : contains(filters[out.lhs], x) = Ok(TRUE)

\* C2. Union inclusion: the union of two comparable filters, holding the items
\* Sa and Sb, contains every item of Sa and of Sb.
UnionInclusion ==
    (Called({"union"}) /\ ~Mismatch(filters[out.lhs], out.rhs)) =>
        /\ Returned
        /\ \A x \in out.items : contains(out.res.val, x) = Ok(TRUE)

\* a union of two filters that each hold an item the other does not
UnionInclusionWitness ==
    /\ Called({"union"}) /\ Returned
    /\ ins[out.lhs] # {} /\ out.items \ ins[out.lhs] # {}
    /\ hashes(out.res.val) >= 1
    /\ out.res.val # filters[out.lhs] /\ out.res.val # out.rhs
    /\ \A x \in out.items : contains(out.res.val, x) = Ok(TRUE)

\* built by new(capacity) or with_size(nbytes)
DefaultRateBuilt(s) == made[s].op \in {"new", "with_size"}

\* C3. Byte round trip: a filter built by new(capacity) or by
\* with_size(nbytes), after any inserts, equals the filter rebuilt from its
\* bytes (same bit length, same bits, same hash count).
RoundTripEqual ==
    (Called({"round_trip"}) /\ DefaultRateBuilt(out.lhs)) =>
        /\ Returned
        /\ BloomFilter_eq(out.res.val, filters[out.lhs])

\* Where the round trip does restore the filter: the filters whose bit length
\* is a multiple of 8, those of with_size, and those of new(capacity) when
\* optimal_bits is one.
RoundTripEqualWholeBytes ==
    (/\ Called({"round_trip"}) /\ DefaultRateBuilt(out.lhs)
     /\ bits(filters[out.lhs]) % 8 = 0) =>
        /\ Returned
        /\ BloomFilter_eq(out.res.val, filters[out.lhs])

\* a filter of new(capacity) holding items was rebuilt from its bytes, equal
RoundTripWitness ==
    /\ Called({"round_trip"}) /\ Returned
    /\ made[out.lhs].op = "new"
    /\ bits(filters[out.lhs]) % 8 = 0
    /\ ins[out.lhs] # {}
    /\ BloomFilter_eq(out.res.val, filters[out.lhs])

\* C4. Idempotent insert: inserting an item the filter already holds leaves
\* the filter (bits and configuration) as it was.
InsertIdempotent ==
    (Called({"insert"}) /\ out.arg \in out.items) =>
        /\ Returned
        /\ filters[out.lhs] = out.rhs

\* an item was inserted again into a filter with its bits set
InsertIdempotentWitness ==
    /\ Called({"insert"}) /\ Returned
    /\ out.arg \in out.items
    /\ hashes(out.rhs) >= 1
    /\ BitVec_count_ones(out.rhs.bits) >= 2
    /\ filters[out.lhs] = out.rhs

\* C5. Bounds: set(index) and is_set(index) on a vector of length n panic
\* with the out-of-bounds error when index >= n and return when index < n.
Bounds ==
    Called({"set", "is_set"}) =>
        IF out.arg >= BitVec_len(vecs[out.lhs])
        THEN out.res.panic = OutOfBounds
        ELSE Returned

\* set(n) panicked on a vector whose tail byte holds bit n
BoundsWitness ==
    /\ Called({"set"})
    /\ out.arg = BitVec_len(vecs[out.lhs])
    /\ out.arg % 8 # 0
    /\ out.arg \div 8 < Len(vecs[out.lhs].bytes)
    /\ out.res.panic = OutOfBounds

\* the state part of C6
MismatchFatal ==
    /\ Called(BinaryOps) =>
         IF Mismatch(filters[out.lhs], out.rhs)
         THEN out.res.panic \in {UnionConfig, IntersectConfig, CompareConfig}
         ELSE /\ Returned
              /\ Called({"union", "intersection"}) =>
                   /\ bits(out.res.val) = bits(filters[out.lhs])
                   /\ bits(out.res.val) = bits(out.rhs)
                   /\ hashes(out.res.val) = hashes(filters[out.lhs])
                   /\ hashes(out.res.val) = hashes(out.rhs)
    /\ Called({"BitVec::union", "BitVec::intersection"}) =>
         IF BitVec_len(vecs[out.lhs]) # BitVec_len(out.rhs)
         THEN out.res.panic \in {BitVecUnionLen, BitVecIntersectLen}
         ELSE Returned /\ BitVec_len(out.res.val) = BitVec_len(out.rhs)

\* the step part of C6: a binary operation changes no filter and no vector
InputsKept ==
    (out'.op \in BinaryOps \cup {"BitVec::union", "BitVec::intersection"}) =>
        /\ filters' = filters
        /\ vecs' = vecs

\* C6. Configuration mismatch is fatal: union, intersection, similarity and
\* overlap of two filters that differ in hash count or bit length panic, as do
\* BitVec union and intersection of vectors of different lengths; on comparable
\* filters union and intersection return a filter of the same bit length and
\* hash count, and the operands are left as they were.
ConfigMismatchFatal == []MismatchFatal /\ [][InputsKept]_vars

\* a union panicked on two filters of the same bit length and different
\* hash counts
ConfigMismatchWitness ==
    /\ Called({"union"})
    /\ out.res.panic = UnionConfig
    /\ bits(filters[out.lhs]) = bits(out.rhs)
    /\ hashes(filters[out.lhs]) # hashes(out.rhs)

\* C7 as stated. Filter invariant: every filter built by a constructor or
\* from bytes, or derived by insert, clear, union or intersection, has
\* hashes() >= 1 and bits() > 0.
FilterInvariant ==
    /\ \A s \in DOMAIN filters : hashes(filters[s]) >= 1 /\ bits(filters[s]) > 0
    /\ (Called({"union", "intersection", "round_trip"}) /\ Returned) =>
         hashes(out.res.val) >= 1 /\ bits(out.res.val) > 0

\* C8 as stated. Self similarity: f.similarity(f) is exactly 1.0 for every
\* filter f.
SelfSimilarityOne ==
    (Called({"similarity"}) /\ out.rhs = filters[out.lhs]) =>
        Returned /\ F64_is_one(out.res.val)

\* C9. Clear resets to fresh: after clear() the filter equals a fresh filter
\* of the same bit length and hash count, every byte is 0, and contains(x) is
\* false for every item when hashes() >= 1.
ClearResets ==
    Called({"clear"}) =>
        LET f == filters[out.lhs] IN
        /\ f = BloomFilter(BitVec_new(bits(out.rhs)), hashes(out.rhs))
        /\ \A i \in DOMAIN as_bytes(f) : as_bytes(f)[i] = 0
        /\ hashes(f) >= 1 => \A x \in Items : contains(f, x) = Ok(FALSE)

\* a filter holding items, with bits set past its first byte, was cleared
ClearResetsWitness ==
    /\ Called({"clear"})
    /\ out.items # {}
    /\ hashes(out.rhs) >= 1
    /\ Len(as_bytes(out.rhs)) >= 2 /\ as_bytes(out.rhs)[2] # 0
    /\ \A x \in Items : contains(filters[out.lhs], x) = Ok(FALSE)

\* C10. Bit-vector algebra: for vectors A and B of equal length, the union
\* has at least as many ones as either, the intersection at most as many as
\* either, and both have the length of A and B.
BitVecAlgebra ==
    (/\ Called({"BitVec::union", "BitVec::intersection"})
     /\ BitVec_len(vecs[out.lhs]) = BitVec_len(out.rhs)) =>
        /\ Returned
        /\ BitVec_len(out.res.val) = BitVec_len(out.rhs)
        /\ Called({"BitVec::union"}) =>
             BitVec_count_ones(out.res.val) >=
               Max(BitVec_count_ones(vecs[out.lhs]), BitVec_count_ones(out.rhs))
        /\ Called({"BitVec::intersection"}) =>
             BitVec_count_ones(out.res.val) <=
               Min(BitVec_count_ones(vecs[out.lhs]), BitVec_count_ones(out.rhs))

\* an intersection of two vectors that share a bit and each have another
BitVecAlgebraWitness ==
    /\ Called({"BitVec::intersection"}) /\ Returned
    /\ BitVec_count_ones(out.res.val) >= 1
    /\ out.res.val # vecs[out.lhs] /\ out.res.val # out.rhs


\* C11. Round trip preserves query behaviour: for a filter built
\* with any false-positive rate, after any inserts, the filter rebuilt from
\* its byte buffer has the same byte buffer and contains(x) answers as the
\* original does, for every item x.
RoundTripSameQueries ==
    Called({"round_trip"}) =>
        /\ Returned
        /\ as_bytes(out.res.val) = as_bytes(filters[out.lhs])
        /\ \A x \in Items :
             contains(out.res.val, x) = contains(filters[out.lhs], x)

\* Where the round trip does preserve the answers: the rebuilt filter has the
\* same byte buffer for a filter of any rate, and contains(x) answers as the
\* original does for the filters built at the default rate whose bit length
\* is a multiple of 8.
RoundTripSameQueriesWholeBytes ==
    Called({"round_trip"}) =>
        /\ Returned
        /\ as_bytes(out.res.val) = as_bytes(filters[out.lhs])
        /\ (DefaultRateBuilt(out.lhs) /\ bits(filters[out.lhs]) % 8 = 0) =>
             \A x \in Items :
               contains(out.res.val, x) = contains(filters[out.lhs], x)

\* a filter of with_size that contains one item and not another was rebuilt
\* from its bytes, and the rebuilt filter answers the same
RoundTripSameQueriesWitness ==
    /\ Called({"round_trip"}) /\ Returned
    /\ made[out.lhs].op = "with_size"
    /\ \E x, y \in Items :
         /\ contains(filters[out.lhs], x) = Ok(TRUE)
         /\ contains(filters[out.lhs], y) = Ok(FALSE)
         /\ contains(out.res.val, x) = Ok(TRUE)
         /\ contains(out.res.val, y) = Ok(FALSE)


\* the limbs of the integer h1 + i*h2 + i^3, the fifth one being what passes
\* 2^64 (i < 2^7)
IntegerSum(h1, h2, i) ==
    LET t0 == h1[1] + i * h2[1] + i * i * i
        t1 == h1[2] + i * h2[2] + t0 \div Limb
        t2 == h1[3] + i * h2[3] + t1 \div Limb
        t3 == h1[4] + i * h2[4] + t2 \div Limb
    IN <<t0 % Limb, t1 % Limb, t2 % Limb, t3 % Limb, t3 \div Limb>>

\* (h1 + i*h2 + i^3) mod m, the sum being the integer sum
IntegerPosition(h1, h2, i, m) ==
    LET s == IntegerSum(h1, h2, i)
        r4 == s[5] % m
        r3 == (r4 * Limb + s[4]) % m
        r2 == (r3 * Limb + s[3]) % m
        r1 == (r2 * Limb + s[2]) % m
    IN (r1 * Limb + s[1]) % m

\* ((h1 + i*h2 + i^3) mod 2^64) mod m: what passes 2^64 is dropped first
WrappedPosition(h1, h2, i, m) ==
    LET s == IntegerSum(h1, h2, i)
        r3 == s[4] % m
        r2 == (r3 * Limb + s[3]) % m
        r1 == (r2 * Limb + s[2]) % m
    IN (r1 * Limb + s[1]) % m

\* insert has set, and contains has tested, the positions pos(h1, h2, i, m),
\* i in 0..nhashes, and no other
PositionsAre(pos(_, _, _, _)) ==
    LET f == filters[out.lhs]
        h == sip[out.arg]
        P == {pos(h[1], h[2], i, bits(f)) : i \in 0..(hashes(f) - 1)}
    IN /\ (Called({"insert"}) /\ bits(f) > 0) =>
            /\ Returned
            /\ \A j \in 0..(bits(f) - 1) :
                 BitVec_is_set(f.bits, j).val =
                   (BitVec_is_set(out.rhs.bits, j).val \/ j \in P)
       /\ (Called({"contains"}) /\ bits(f) > 0) =>
            /\ Returned
            /\ out.res.val = \A p \in P : BitVec_is_set(f.bits, p).val

ReachableVecs ==
    {vecs[v] : v \in DOMAIN vecs}
    \cup {filters[s].bits : s \in DOMAIN filters}
    \cup (IF Called({"BitVec::union", "BitVec::intersection"}) /\ Returned
          THEN {out.res.val} ELSE {})
    \cup (IF Called({"union", "intersection", "round_trip"}) /\ Returned
          THEN {out.res.val.bits} ELSE {})

\* bit j of the byte buffer, whether or not j is below len()
RawBit(v, j) == Bit(v.bytes[(j \div 8) + 1], j % 8)

StorageInvariant(v) ==
    /\ Len(v.bytes) = (BitVec_len(v) + 7) \div 8
    /\ \A j \in BitVec_len(v)..(Len(v.bytes) * 8 - 1) : RawBit(v, j) = 0
    /\ BitVec_count_ones(v) =
         Cardinality({i \in 0..(BitVec_len(v) - 1) : BitVec_is_set(v, i) = Ok(TRUE)})
    /\ BitVec_count_zeros(v) = BitVec_len(v) - BitVec_count_ones(v)
    /\ BitVec_count_zeros(v) >= 0

\* C13. Bit-vector storage invariant: in every bit vector reached through new,
\* From<Vec<u8>>, set, clear, union and intersection, the byte buffer has
\* ceil(len()/8) bytes and every padding bit of the tail byte is 0, so that
\* count_ones() is the number of indices i < len() with is_set(i), and
\* count_zeros() = len() - count_ones() is not below zero.
BitVecStorage == \A v \in ReachableVecs : StorageInvariant(v)

\* a union returned a vector with a partly used tail byte, whose last bit and
\* another bit are set
BitVecStorageWitness ==
    /\ Called({"BitVec::union"}) /\ Returned
    /\ BitVec_len(out.res.val) % 8 # 0
    /\ BitVec_is_set(out.res.val, BitVec_len(out.res.val) - 1) = Ok(TRUE)
    /\ BitVec_count_ones(out.res.val) >= 2
    /\ BitVec_count_zeros(out.res.val) >= 1
    /\ out.res.val # vecs[out.lhs] /\ out.res.val # out.rhs


\* C14. Single-bit set frame: for every bit vector and every index i < len(),
\* set(i) makes is_set(i) true, leaves is_set(j) as it was for every other
\* index j < len(), leaves len() as it was, and changes only bit (i mod 8),
\* counted from the least significant bit, of byte floor(i/8); setting a bit
\* that is already set changes nothing.
SetFrame ==
    (Called({"set"}) /\ out.arg < BitVec_len(out.rhs)) =>
        LET before == out.rhs
            after == vecs[out.lhs]
            i == out.arg
        IN /\ Returned
           /\ BitVec_is_set(after, i) = Ok(TRUE)
           /\ \A j \in 0..(BitVec_len(before) - 1) :
                j # i => BitVec_is_set(after, j) = BitVec_is_set(before, j)
           /\ BitVec_len(after) = BitVec_len(before)
           /\ Len(after.bytes) = Len(before.bytes)
           /\ \A b \in 0..(Len(before.bytes) - 1) : \A k \in 0..7 :
                IF b = i \div 8 /\ k = i % 8
                THEN Bit(after.bytes[b + 1], k) = 1
                ELSE Bit(after.bytes[b + 1], k) = Bit(before.bytes[b + 1], k)
           /\ BitVec_is_set(before, i) = Ok(TRUE) => after = before

\* set(i) turned on a bit that is neither in the first byte nor the lowest of
\* its byte, in a vector with two bits set in the first byte
SetFrameWitness ==
    /\ Called({"set"}) /\ Returned
    /\ out.arg \div 8 >= 1 /\ out.arg % 8 # 0
    /\ BitVec_is_set(out.rhs, out.arg) = Ok(FALSE)
    /\ BitVec_is_set(vecs[out.lhs], out.arg) = Ok(TRUE)
    /\ ByteCountOnes(out.rhs.bytes[1]) >= 2
    /\ BitVec_count_ones(vecs[out.lhs]) = BitVec_count_ones(out.rhs) + 1


\* C15. Insert and contains are total on a constructed filter: for every
\* filter with bits() > 0, every item and every i in 0..hashes(), the index
\* insert passes to set and contains passes to is_set is below bits(), so
\* neither raises the out-of-range index error.
InsertContainsTotal ==
    /\ \A s \in DOMAIN filters :
         LET f == filters[s] IN
         bits(f) > 0 =>
           \A x \in Items : \A i \in 0..(hashes(f) - 1) :
             LET index == bloom_hash(f, sip[x][1], sip[x][2], i)
             IN /\ index.panic = ""
                /\ index.val >= 0 /\ index.val < bits(f)
                /\ BitVec_in_bounds(f.bits, index.val)
    /\ (Called({"insert", "contains"}) /\ bits(filters[out.lhs]) > 0) => Returned

\* an insert returned on a filter whose bit length is not a multiple of 8,
\* one of its indices being the last one, bits() - 1
InsertContainsTotalWitness ==
    /\ Called({"insert"}) /\ Returned
    /\ bits(out.rhs) % 8 # 0
    /\ hashes(out.rhs) >= 2
    /\ \E i \in 0..(hashes(out.rhs) - 1) :
         bloom_hash(out.rhs, sip[out.arg][1], sip[out.arg][2], i)
           = Ok(bits(out.rhs) - 1)
    /\ BitVec_is_set(filters[out.lhs].bits, bits(out.rhs) - 1) = Ok(TRUE)

====
